---- MODULE Spec2Model ----
(***************************************************************************)
(* Wallet aggregate and JWT-like token protocol of jwt-generate.           *)
(* The handlers of src/apps/jwt-generate/index.ts are modelled as          *)
(* operators over the persisted wallet slot; one action per handler.       *)
(* Strings are sequences of one-character strings.                         *)
(***************************************************************************)
EXTENDS Integers, Sequences, FiniteSets, TLC

VARIABLES slot, keyCounter, last

vars == <<slot, keyCounter, last>>

(* ------------------------------ bounds --------------------------------- *)

\* largest key identifier the crypto provider hands out
MaxKeys == 2

\* longest payload given to generateJWT
MaxPayloadLen == 2

(* ------------------------------- codec --------------------------------- *)

\* printable ASCII, code 32 first (code 96 is written GRAVE)
Ascii ==
  << " ", "!", "\"", "#", "$", "%", "&", "'", "(", ")", "*", "+", ",", "-", ".", "/",
     "0", "1", "2", "3", "4", "5", "6", "7", "8", "9", ":", ";", "<", "=", ">", "?",
     "@", "A", "B", "C", "D", "E", "F", "G", "H", "I", "J", "K", "L", "M", "N", "O",
     "P", "Q", "R", "S", "T", "U", "V", "W", "X", "Y", "Z", "[", "\\", "]", "^", "_",
     "GRAVE", "a", "b", "c", "d", "e", "f", "g", "h", "i", "j", "k", "l", "m", "n", "o",
     "p", "q", "r", "s", "t", "u", "v", "w", "x", "y", "z", "{", "|", "}", "~" >>

CharCode(c) == 31 + (CHOOSE i \in 1..Len(Ascii) : Ascii[i] = c)

HexDigits == <<"0", "1", "2", "3", "4", "5", "6", "7", "8", "9", "a", "b", "c", "d", "e", "f">>

\* the UTF-16 code unit n as a character: printable ASCII is itself, any other
\* code unit is written as its escape, backslash u and four hex digits
CodeChar(n) ==
  IF n > 31 /\ n <= 31 + Len(Ascii) THEN Ascii[n - 31]
  ELSE "\\u" \o HexDigits[((n \div 4096) % 16) + 1] \o HexDigits[((n \div 256) % 16) + 1]
               \o HexDigits[((n \div 16) % 16) + 1] \o HexDigits[(n % 16) + 1]

\* String.UTF8.encode(str, nullTerminated) on ASCII text
UTF8Encode(str, nullTerminated) ==
  [i \in 1..Len(str) |-> CharCode(str[i])] \o (IF nullTerminated THEN <<0>> ELSE <<>>)

\* a decoded code point as UTF-16 code units: one unit below 0x10000, else a
\* surrogate pair
CodeUnits(u) ==
  IF u < 65536 THEN <<CodeChar(u)>>
  ELSE <<CodeChar(55296 + (u - 65536) \div 1024), CodeChar(56320 + ((u - 65536) % 1024))>>

\* String.UTF8.decode(buf, nullTerminated): a byte below 128 is one character
\* (a 0 byte ends the text when nullTerminated); a lead byte 110xxxxx takes one
\* more byte, 1110xxxx two more, any other byte with the top bit set three more,
\* each read through & 63 without checking that it is a continuation byte; a
\* sequence cut off by the end of the buffer ends the text
RECURSIVE UTF8Decode(_, _)
UTF8Decode(bytes, nullTerminated) ==
  IF bytes = <<>> THEN <<>>
  ELSE
    LET n  == Len(bytes)
        u0 == bytes[1]
    IN  IF u0 < 128
        THEN IF nullTerminated /\ u0 = 0 THEN <<>>
             ELSE <<CodeChar(u0)>> \o UTF8Decode(SubSeq(bytes, 2, n), nullTerminated)
        ELSE IF n = 1 THEN <<>>
        ELSE IF u0 \div 32 = 6
        THEN <<CodeChar((u0 % 32) * 64 + (bytes[2] % 64))>>
               \o UTF8Decode(SubSeq(bytes, 3, n), nullTerminated)
        ELSE IF n = 2 THEN <<>>
        ELSE IF u0 \div 16 = 14
        THEN CodeUnits((u0 % 16) * 4096 + (bytes[2] % 64) * 64 + (bytes[3] % 64))
               \o UTF8Decode(SubSeq(bytes, 4, n), nullTerminated)
        ELSE IF n = 3 THEN <<>>
        ELSE CodeUnits((u0 % 8) * 262144 + (bytes[2] % 64) * 4096 + (bytes[3] % 64) * 64
                         + (bytes[4] % 64))
               \o UTF8Decode(SubSeq(bytes, 5, n), nullTerminated)

PADCHAR == "="

ALPHA ==
  << "A", "B", "C", "D", "E", "F", "G", "H", "I", "J", "K", "L", "M", "N", "O", "P",
     "Q", "R", "S", "T", "U", "V", "W", "X", "Y", "Z", "a", "b", "c", "d", "e", "f",
     "g", "h", "i", "j", "k", "l", "m", "n", "o", "p", "q", "r", "s", "t", "u", "v",
     "w", "x", "y", "z", "0", "1", "2", "3", "4", "5", "6", "7", "8", "9", "+", "/" >>

AlphaSet == {ALPHA[i] : i \in 1..Len(ALPHA)}

Sextet(n) == ALPHA[n + 1]

\* value of a base64 character; a character outside the alphabet reads as 0
getByte64(c) == IF c \in AlphaSet THEN (CHOOSE i \in 1..Len(ALPHA) : ALPHA[i] = c) - 1 ELSE 0

\* base64 encode(bytes): 3 bytes -> 4 characters, "=" padding on the last group
RECURSIVE encode(_)
encode(bytes) ==
  IF bytes = <<>> THEN <<>>
  ELSE IF Len(bytes) = 1 THEN
    << Sextet(bytes[1] \div 4), Sextet((bytes[1] % 4) * 16), PADCHAR, PADCHAR >>
  ELSE IF Len(bytes) = 2 THEN
    << Sextet(bytes[1] \div 4),
       Sextet((bytes[1] % 4) * 16 + bytes[2] \div 16),
       Sextet((bytes[2] % 16) * 4), PADCHAR >>
  ELSE
    << Sextet(bytes[1] \div 4),
       Sextet((bytes[1] % 4) * 16 + bytes[2] \div 16),
       Sextet((bytes[2] % 16) * 4 + bytes[3] \div 64),
       Sextet(bytes[3] % 64) >>
    \o encode(SubSeq(bytes, 4, Len(bytes)))

\* a string base64 decode accepts: groups of 4, alphabet only, "=" only as 1 or 2 trailing pads
Decodable(s) ==
  /\ Len(s) % 4 = 0
  /\ \A i \in 1..Len(s) :
       \/ s[i] \in AlphaSet
       \/ s[i] = PADCHAR /\ i >= Len(s) - 1 /\ (i = Len(s) - 1 => s[Len(s)] = PADCHAR)

\* base64 decode(s) of a string with Len(s) % 4 = 0
RECURSIVE decode(_)
decode(s) ==
  IF Len(s) < 4 THEN <<>>
  ELSE
    LET a == getByte64(s[1])
        b == getByte64(s[2])
        c == getByte64(s[3])
        d == getByte64(s[4])
        b1 == a * 4 + b \div 16
        b2 == (b % 16) * 16 + c \div 4
        b3 == (c % 4) * 64 + d
    IN  IF Len(s) = 4 /\ s[4] = PADCHAR
        THEN IF s[3] = PADCHAR THEN <<b1>> ELSE <<b1, b2>>
        ELSE <<b1, b2, b3>> \o decode(SubSeq(s, 5, Len(s)))

\* decode(s) as checkJWT calls it, on whatever the segment holds: the whole
\* groups of 4 characters are read, a character outside the alphabet as 0
decodeCall(s) ==
  IF Decodable(s) THEN decode(s) ELSE decode(SubSeq(s, 1, Len(s) - (Len(s) % 4)))

\* input.jwt.split("."): the segments between the separators
RECURSIVE split(_, _)
split(s, sep) ==
  IF \A i \in 1..Len(s) : s[i] # sep THEN <<s>>
  ELSE LET i == CHOOSE j \in 1..Len(s) : s[j] = sep /\ \A k \in 1..(j - 1) : s[k] # sep
       IN  <<SubSeq(s, 1, i - 1)>> \o split(SubSeq(s, i + 1, Len(s)), sep)

\* str.replace(search, ""): the first occurrence of the character removed
RECURSIVE replaceFirst(_, _)
replaceFirst(str, ch) ==
  IF str = <<>> THEN <<>>
  ELSE IF Head(str) = ch THEN Tail(str)
  ELSE <<Head(str)>> \o replaceFirst(Tail(str), ch)

(* ------------------- Wallet aggregate (wallet/wallet) ------------------ *)

Algorithms == {"ECDSA", "AES-GCM", "RSA-PSS"}

SigningAlgorithms == {"ECDSA", "RSA-PSS"}

KeyFormats == {"raw", "spki", "pkcs8", "jwk"}

Roles == {"admin", "user"}

\* the persisted slot when no wallet was ever saved
Absent == [present |-> FALSE, name |-> "", keys |-> {}, users |-> {}]

\* Wallet.load(): the persisted wallet, or absent
Wallet_load(s) == s

\* Wallet.create(name): empty key store and user store under name
Wallet_create(name) == [present |-> TRUE, name |-> name, keys |-> {}, users |-> {}]

KeyIdsOf(w) == {k.keyId : k \in w.keys}

KeyOf(w, keyId) == CHOOSE k \in w.keys : k.keyId = keyId

\* Wallet.generateKey(description, algorithm): a new KeyRecord with a fresh keyId,
\* or failure and no change on an unsupported algorithm or a provider failure
Wallet_generateKey(w, description, algorithm, env) ==
  IF algorithm \in Algorithms /\ env.providerOk
  THEN [ok |-> TRUE,
        w  |-> [w EXCEPT !.keys = @ \cup {[keyId |-> env.freshId, description |-> description,
                                            algorithm |-> algorithm, extractable |-> TRUE,
                                            usages |-> {"sign", "verify"}]}]]
  ELSE [ok |-> FALSE, w |-> w]

\* Wallet.importKey(description, format, keyData, algorithm, extractable, usages)
Wallet_importKey(w, description, key, env) ==
  IF /\ key.format \in KeyFormats
     /\ Decodable(key.keyData)
     /\ key.algorithm \in Algorithms
     /\ env.providerOk
  THEN [ok |-> TRUE,
        w  |-> [w EXCEPT !.keys = @ \cup {[keyId |-> env.freshId, description |-> description,
                                            algorithm |-> key.algorithm,
                                            extractable |-> key.extractable,
                                            usages |-> key.usages]}]]
  ELSE [ok |-> FALSE, w |-> w]

\* Wallet.removeKey(keyId): deletes the record if present, else failure
Wallet_removeKey(w, keyId) ==
  IF keyId \in KeyIdsOf(w)
  THEN [ok |-> TRUE, w |-> [w EXCEPT !.keys = {k \in @ : k.keyId # keyId}]]
  ELSE [ok |-> FALSE, w |-> w]

\* Wallet.listKeys(user): metadata of the key records, read-only
Wallet_listKeys(w, user) == {[keyId |-> k.keyId, algorithm |-> k.algorithm] : k \in w.keys}

UserIdsOf(w) == {u.userId : u \in w.users}

Admins(w) == {u \in w.users : u.role = "admin"}

\* Wallet.addUser(userId, role, force): fails on a known userId or an unknown role
Wallet_addUser(w, userId, role, force) ==
  IF userId \notin UserIdsOf(w) /\ role \in Roles
  THEN [ok |-> TRUE, w |-> [w EXCEPT !.users = @ \cup {[userId |-> userId, role |-> role]}]]
  ELSE [ok |-> FALSE, w |-> w]

\* Wallet.removeUser(userId): fails on an unknown userId or the sole remaining admin
Wallet_removeUser(w, userId) ==
  IF /\ userId \in UserIdsOf(w)
     /\ ~(Admins(w) = {[userId |-> userId, role |-> "admin"]})
  THEN [ok |-> TRUE, w |-> [w EXCEPT !.users = {u \in @ : u.userId # userId}]]
  ELSE [ok |-> FALSE, w |-> w]

\* the provider's signature over a message with the key behind keyId
SignatureBytes(keyId, message) == <<keyId>> \o UTF8Encode(message, FALSE)

\* Wallet.sign(keyId, message): the encoded signature, or null on an unknown
\* keyId, an algorithm that cannot sign, or a provider error
Wallet_sign(w, keyId, message, env) ==
  IF /\ keyId \in KeyIdsOf(w)
     /\ KeyOf(w, keyId).algorithm \in SigningAlgorithms
     /\ env.providerOk
  THEN [null |-> FALSE, sig |-> encode(SignatureBytes(keyId, message))]
  ELSE [null |-> TRUE, sig |-> <<>>]

\* Wallet.verify(keyId, message, signature)
Wallet_verify(w, keyId, message, signature) ==
  /\ keyId \in KeyIdsOf(w)
  /\ KeyOf(w, keyId).algorithm \in SigningAlgorithms
  /\ signature = encode(SignatureBytes(keyId, message))

(* --------------------- handlers (jwt-generate/index) ------------------- *)

\* What one handler call did: the collaborator calls it made, in order; what the
\* Wallet mutation it called returned ("ok", "fail", or "none" when it called
\* none); the message it reverted with ("" when it did not revert); whether the
\* runtime trapped, which no handler path does; the messages it emitted.
Outcome(calls, ret, revert, trap, events) ==
  [calls |-> calls, ret |-> ret, revert |-> revert, trap |-> trap, events |-> events]

Ret(r) == IF r.ok THEN "ok" ELSE "fail"

NoWallet(s) == [slot |-> s, out |-> Outcome(<<"Wallet.load">>, "none", "", FALSE, <<>>)]

\* the handlers that save only when the Wallet call returned true
SaveIfOk(s, r, call) ==
  IF r.ok
  THEN [slot |-> r.w, out |-> Outcome(<<"Wallet.load", call, "Wallet.save">>, "ok", "", FALSE, <<>>)]
  ELSE [slot |-> s, out |-> Outcome(<<"Wallet.load", call>>, "fail", "", FALSE, <<>>)]

\* generateKey without the null check: a missing wallet is replaced by a new one
generateKey_NoWalletCheck(s, input, env) ==
  LET wallet == IF Wallet_load(s).present THEN Wallet_load(s) ELSE Wallet_create("")
  IN  SaveIfOk(s, Wallet_generateKey(wallet, input.description, input.algorithm, env),
               "Wallet.generateKey")

generateKey(s, input, env) ==
  LET wallet == Wallet_load(s)
  IN  IF ~wallet.present THEN NoWallet(s)
      ELSE SaveIfOk(s, Wallet_generateKey(wallet, input.description, input.algorithm, env),
                    "Wallet.generateKey")

\* removeKey that does not look at what Wallet.removeKey returned
removeKey_AlwaysSaves(s, input) ==
  LET wallet == Wallet_load(s)
  IN  IF ~wallet.present THEN NoWallet(s)
      ELSE LET r == Wallet_removeKey(wallet, input.keyId)
           IN  [slot |-> r.w,
                out  |-> Outcome(<<"Wallet.load", "Wallet.removeKey", "Wallet.save">>,
                                 Ret(r), "", FALSE, <<>>)]

\* removeKey that drops the persisted wallet once its last key is removed
removeKey_DropsEmptyWallet(s, input) ==
  LET wallet == Wallet_load(s)
  IN  IF ~wallet.present THEN NoWallet(s)
      ELSE LET r == Wallet_removeKey(wallet, input.keyId)
           IN  IF r.ok
               THEN [slot |-> IF r.w.keys = {} THEN Absent ELSE r.w,
                     out  |-> Outcome(<<"Wallet.load", "Wallet.removeKey", "Wallet.save">>,
                                      "ok", "", FALSE, <<>>)]
               ELSE [slot |-> s,
                     out  |-> Outcome(<<"Wallet.load", "Wallet.removeKey">>, "fail", "", FALSE, <<>>)]

removeKey(s, input) ==
  LET wallet == Wallet_load(s)
  IN  IF ~wallet.present THEN NoWallet(s)
      ELSE SaveIfOk(s, Wallet_removeKey(wallet, input.keyId), "Wallet.removeKey")

\* the result of Wallet.importKey is not looked at: save is always called
importKey(s, input, env) ==
  LET wallet == Wallet_load(s)
  IN  IF ~wallet.present THEN NoWallet(s)
      ELSE LET r == Wallet_importKey(wallet, input.description, input.key, env)
           IN  [slot |-> r.w,
                out  |-> Outcome(<<"Wallet.load", "Wallet.importKey", "Wallet.save">>,
                                 Ret(r), "", FALSE, <<>>)]

\* listKeys written like the mutating handlers: it saves after the Wallet call
listKeys_Saves(s, input) ==
  LET wallet == Wallet_load(s)
  IN  IF ~wallet.present THEN NoWallet(s)
      ELSE [slot |-> wallet,
            out  |-> Outcome(<<"Wallet.load", "Wallet.listKeys", "Wallet.save">>, "none", "",
                             FALSE, << <<"keys", Wallet_listKeys(wallet, input.user)>> >>)]

listKeys(s, input) ==
  LET wallet == Wallet_load(s)
  IN  IF ~wallet.present THEN NoWallet(s)
      ELSE [slot |-> s,
            out  |-> Outcome(<<"Wallet.load", "Wallet.listKeys">>, "none", "", FALSE,
                             << <<"keys", Wallet_listKeys(wallet, input.user)>> >>)]

addUser(s, input) ==
  LET wallet == Wallet_load(s)
  IN  IF ~wallet.present THEN NoWallet(s)
      ELSE SaveIfOk(s, Wallet_addUser(wallet, input.userId, input.role, FALSE), "Wallet.addUser")

\* removeUser that does not look at what Wallet.removeUser returned
removeUser_AlwaysSaves(s, input) ==
  LET wallet == Wallet_load(s)
  IN  IF ~wallet.present THEN NoWallet(s)
      ELSE LET r == Wallet_removeUser(wallet, input.userId)
           IN  [slot |-> r.w,
                out  |-> Outcome(<<"Wallet.load", "Wallet.removeUser", "Wallet.save">>,
                                 Ret(r), "", FALSE, <<>>)]

removeUser(s, input) ==
  LET wallet == Wallet_load(s)
  IN  IF ~wallet.present THEN NoWallet(s)
      ELSE SaveIfOk(s, Wallet_removeUser(wallet, input.userId), "Wallet.removeUser")

\* createWallet without the check for an existing wallet
createWallet_NoExistingCheck(s, input) ==
  [slot |-> Wallet_create(input.name),
   out  |-> Outcome(<<"Wallet.load", "Wallet.create", "Wallet.save">>, "ok", "", FALSE, <<>>)]

createWallet(s, input) ==
  LET existingWallet == Wallet_load(s)
  IN  IF existingWallet.present
      THEN [slot |-> s,
            out  |-> Outcome(<<"Wallet.load">>, "none", "Wallet does already exists.", FALSE, <<>>)]
      ELSE [slot |-> Wallet_create(input.name),
            out  |-> Outcome(<<"Wallet.load", "Wallet.create", "Wallet.save">>, "ok", "", FALSE, <<>>)]

\* JSON.stringify(header) for JWTHeader {alg}
JSONStringify(header) ==
  <<"{", "\"", "a", "l", "g", "\"", ":", "\"">> \o header.alg \o <<"\"", "}">>

\* generateJWT that signs the payload segment alone
generateJWT_SignsPayloadOnly(s, input, env) ==
  LET wallet == Wallet_load(s)
  IN  IF ~wallet.present THEN NoWallet(s)
      ELSE
        LET header == [alg |-> <<"E", "C", "D", "S", "A">>]
            headerB64 == encode(UTF8Encode(JSONStringify(header), TRUE))
            payloadB64 == encode(UTF8Encode(input.payload, TRUE))
            jwtPayload == headerB64 \o <<".">> \o payloadB64
            e1 == <<"Generating JWT: ", jwtPayload, " - with key: ", input.keyId>>
            jwtSignature == Wallet_sign(wallet, input.keyId, payloadB64, env)
            jwt == jwtPayload \o <<".">> \o jwtSignature.sig
        IN  IF jwtSignature.null
            THEN [slot |-> s,
                  out  |-> Outcome(<<"Wallet.load", "Wallet.sign">>, "none",
                                   "Failed to generate JWT", FALSE, <<e1>>)]
            ELSE [slot |-> s,
                  out  |-> Outcome(<<"Wallet.load", "Wallet.sign">>, "none", "", FALSE,
                                   <<e1, <<"JWT generated: ", jwt>> >>)]

\* generateJWT without the return after the revert of a failed signing
generateJWT_MissingReturn(s, input, env) ==
  LET wallet == Wallet_load(s)
  IN  IF ~wallet.present THEN NoWallet(s)
      ELSE
        LET header == [alg |-> <<"E", "C", "D", "S", "A">>]
            headerB64 == encode(UTF8Encode(JSONStringify(header), TRUE))
            payloadB64 == encode(UTF8Encode(input.payload, TRUE))
            jwtPayload == headerB64 \o <<".">> \o payloadB64
            e1 == <<"Generating JWT: ", jwtPayload, " - with key: ", input.keyId>>
            jwtSignature == Wallet_sign(wallet, input.keyId, jwtPayload, env)
            jwt == jwtPayload \o <<".">> \o jwtSignature.sig
        IN  [slot |-> s,
             out  |-> Outcome(<<"Wallet.load", "Wallet.sign">>, "none",
                              IF jwtSignature.null THEN "Failed to generate JWT" ELSE "",
                              FALSE, <<e1, <<"JWT generated: ", jwt>> >>)]

\* generateJWT that stamps the header with the algorithm of the key
generateJWT_KeyAlgHeader(s, input, env) ==
  LET wallet == Wallet_load(s)
  IN  IF ~wallet.present THEN NoWallet(s)
      ELSE
        LET header == [alg |-> IF input.keyId \in KeyIdsOf(wallet)
                                  /\ KeyOf(wallet, input.keyId).algorithm # "ECDSA"
                               THEN <<"R", "S", "A">> ELSE <<"E", "C", "D", "S", "A">>]
            headerB64 == encode(UTF8Encode(JSONStringify(header), TRUE))
            payloadB64 == encode(UTF8Encode(input.payload, TRUE))
            jwtPayload == headerB64 \o <<".">> \o payloadB64
            e1 == <<"Generating JWT: ", jwtPayload, " - with key: ", input.keyId>>
            jwtSignature == Wallet_sign(wallet, input.keyId, jwtPayload, env)
            jwt == jwtPayload \o <<".">> \o jwtSignature.sig
        IN  IF jwtSignature.null
            THEN [slot |-> s,
                  out  |-> Outcome(<<"Wallet.load", "Wallet.sign">>, "none",
                                   "Failed to generate JWT", FALSE, <<e1>>)]
            ELSE [slot |-> s,
                  out  |-> Outcome(<<"Wallet.load", "Wallet.sign">>, "none", "", FALSE,
                                   <<e1, <<"JWT generated: ", jwt>> >>)]

generateJWT(s, input, env) ==
  LET wallet == Wallet_load(s)
  IN  IF ~wallet.present THEN NoWallet(s)
      ELSE
        LET header == [alg |-> <<"E", "C", "D", "S", "A">>]
            h == UTF8Encode(JSONStringify(header), TRUE)
            headerB64 == encode(h)
            p == UTF8Encode(input.payload, TRUE)
            payloadB64 == encode(p)
            jwtPayload == headerB64 \o <<".">> \o payloadB64
            e1 == <<"Generating JWT: ", jwtPayload, " - with key: ", input.keyId>>
            jwtSignature == Wallet_sign(wallet, input.keyId, jwtPayload, env)
            jwt == jwtPayload \o <<".">> \o jwtSignature.sig
        IN  IF jwtSignature.null
            THEN [slot |-> s,
                  out  |-> Outcome(<<"Wallet.load", "Wallet.sign">>, "none",
                                   "Failed to generate JWT", FALSE, <<e1>>)]
            ELSE [slot |-> s,
                  out  |-> Outcome(<<"Wallet.load", "Wallet.sign">>, "none", "", FALSE,
                                   <<e1, <<"JWT generated: ", jwt>> >>)]

\* the part of checkJWT after the segment count check and the load
checkJWT_Loaded(s, wallet, input, items, message) ==
  LET jwtHeaderU8 == decodeCall(items[1])
      jwtHeaderStr == replaceFirst(UTF8Decode(jwtHeaderU8, TRUE), "\\")
      e1 == <<"jwtHeaderStr: ", jwtHeaderStr>>
      jwtPayloadU8 == decodeCall(items[2])
      jwtPayloadStr == replaceFirst(UTF8Decode(jwtPayloadU8, TRUE), "\\")
      e2 == <<"jwtPayloadStr: ", jwtPayloadStr>>
  IN  IF ~Wallet_verify(wallet, input.keyId, message, items[3])
      THEN [slot |-> s,
            out  |-> Outcome(<<"Wallet.load", "decode", "decode", "Wallet.verify">>,
                             "none", "Invalid JWT signature", FALSE, <<e1, e2>>)]
      ELSE [slot |-> s,
            out  |-> Outcome(<<"Wallet.load", "decode", "decode", "Wallet.verify">>,
                             "none", "", FALSE, <<e1, e2, <<"Verification Successful">> >>)]

\* checkJWT that verifies the two segments joined without the separator
checkJWT_NoSeparator(s, input) ==
  LET items == split(input.jwt, ".")
  IN  IF Len(items) # 3
      THEN [slot |-> s, out |-> Outcome(<<>>, "none", "Invalid JWT format", FALSE, <<>>)]
      ELSE LET wallet == Wallet_load(s)
           IN  IF ~wallet.present THEN NoWallet(s)
               ELSE checkJWT_Loaded(s, wallet, input, items, items[1] \o items[2])

\* checkJWT without the return after the revert of a bad signature
checkJWT_MissingReturn(s, input) ==
  LET items == split(input.jwt, ".")
  IN  IF Len(items) # 3
      THEN [slot |-> s, out |-> Outcome(<<>>, "none", "Invalid JWT format", FALSE, <<>>)]
      ELSE LET wallet == Wallet_load(s)
           IN  IF ~wallet.present THEN NoWallet(s)
               ELSE LET r == checkJWT_Loaded(s, wallet, input, items,
                                             items[1] \o <<".">> \o items[2])
                    IN  IF r.out.revert = "Invalid JWT signature"
                        THEN [r EXCEPT !.out.events = Append(@, <<"Verification Successful">>)]
                        ELSE r

\* checkJWT that verifies the signature over the header segment alone
checkJWT_HeaderMessage(s, input) ==
  LET items == split(input.jwt, ".")
  IN  IF Len(items) # 3
      THEN [slot |-> s, out |-> Outcome(<<>>, "none", "Invalid JWT format", FALSE, <<>>)]
      ELSE LET wallet == Wallet_load(s)
           IN  IF ~wallet.present THEN NoWallet(s)
               ELSE checkJWT_Loaded(s, wallet, input, items, items[1])

\* checkJWT that loads the wallet before it counts the segments
checkJWT_LoadFirst(s, input) ==
  LET items == split(input.jwt, ".")
      wallet == Wallet_load(s)
  IN  IF ~wallet.present THEN NoWallet(s)
      ELSE IF Len(items) # 3
      THEN [slot |-> s,
            out  |-> Outcome(<<"Wallet.load">>, "none", "Invalid JWT format", FALSE, <<>>)]
      ELSE checkJWT_Loaded(s, wallet, input, items, items[1] \o <<".">> \o items[2])

checkJWT(s, input) ==
  LET items == split(input.jwt, ".")
  IN  IF Len(items) # 3
      THEN [slot |-> s, out |-> Outcome(<<>>, "none", "Invalid JWT format", FALSE, <<>>)]
      ELSE
        LET wallet == Wallet_load(s)
        IN  IF ~wallet.present THEN NoWallet(s)
            ELSE
              LET jwtHeaderU8 == decodeCall(items[1])
                  jwtHeaderStr == replaceFirst(UTF8Decode(jwtHeaderU8, TRUE), "\\")
                  e1 == <<"jwtHeaderStr: ", jwtHeaderStr>>
                  jwtPayloadU8 == decodeCall(items[2])
                  jwtPayloadStr == replaceFirst(UTF8Decode(jwtPayloadU8, TRUE), "\\")
                  e2 == <<"jwtPayloadStr: ", jwtPayloadStr>>
              IN  IF ~Wallet_verify(wallet, input.keyId,
                                    items[1] \o <<".">> \o items[2], items[3])
                  THEN [slot |-> s,
                        out  |-> Outcome(<<"Wallet.load", "decode", "decode", "Wallet.verify">>,
                                         "none", "Invalid JWT signature", FALSE, <<e1, e2>>)]
                  ELSE [slot |-> s,
                        out  |-> Outcome(<<"Wallet.load", "decode", "decode", "Wallet.verify">>,
                                         "none", "", FALSE,
                                         <<e1, e2, <<"Verification Successful">> >>)]

(* ------------------------------- inputs -------------------------------- *)

Names == {"acme", "beta"}

AlgorithmInputs == {"ECDSA", "AES-GCM", "XYZ"}

\* key identifiers a caller may name: every one the provider can hand out, and one it never does
KeyIdInputs == 1..(MaxKeys + 1)

UserIdInputs == {"alice", "bob"}

RoleInputs == {"admin", "user", "root"}

GoodKey == [format |-> "raw", keyData |-> <<"A", "A", "A", "A">>, algorithm |-> "ECDSA",
            extractable |-> TRUE, usages |-> {"sign", "verify"}]

KeyInputs == { GoodKey,
               [GoodKey EXCEPT !.format = "pem"],
               [GoodKey EXCEPT !.keyData = <<"~", "A", "A", "A">>],
               [GoodKey EXCEPT !.algorithm = "XYZ"] }

RECURSIVE StringsUpTo(_, _)
StringsUpTo(chars, n) ==
  IF n = 0 THEN {<<>>}
  ELSE LET shorter == StringsUpTo(chars, n - 1)
       IN  shorter \cup {Append(str, c) : str \in shorter, c \in chars}

Payloads == StringsUpTo({"h"}, MaxPayloadLen)

\* the token generateJWT emits for payload p under a signing key keyId
TokenOf(keyId, p) ==
  LET w == [Wallet_create("acme") EXCEPT
              !.keys = {[keyId |-> keyId, description |-> "signing key", algorithm |-> "ECDSA",
                         extractable |-> TRUE, usages |-> {"sign", "verify"}]}]
      r == generateJWT(w, [keyId |-> keyId, payload |-> p], [providerOk |-> TRUE])
  IN  r.out.events[Len(r.out.events)][2]

\* the characters a tampered position is changed to: another base64 character,
\* the separator, and a character outside the base64 alphabet
TamperChars(c) == {IF c = "A" THEN "B" ELSE "A", ".", "~"}

\* t with one character of one of its segments changed
TamperedOf(t) ==
  UNION {{[t EXCEPT ![i] = c] : c \in TamperChars(t[i])} : i \in {j \in 1..Len(t) : t[j] # "."}}

Malformed == { <<>>, <<"A", "A", "A", "A">>, <<"A", ".", "A">>, <<".", ".">>,
               <<"A", ".", "A", ".", "A", ".", "A">> }

\* checkJWT inputs of the wallet lifecycle: each key's token, its last character
\* changed to "X", and the malformed strings
FewCheckInputs ==
  {[keyId |-> k, jwt |-> TokenOf(k2, <<"h">>)] : k \in KeyIdInputs, k2 \in 1..MaxKeys}
  \cup {[keyId |-> 1, jwt |-> [TokenOf(1, <<"h">>) EXCEPT ![Len(TokenOf(1, <<"h">>))] = "X"]]}
  \cup {[keyId |-> 1, jwt |-> t] : t \in Malformed}

\* checkJWT inputs of the token protocol: every token under every key, every
\* one-character change of a token under the key that signed it, and the
\* malformed strings
ManyCheckInputs ==
  {[keyId |-> k, jwt |-> TokenOf(k2, p)] : k \in KeyIdInputs, k2 \in 1..MaxKeys, p \in Payloads}
  \cup UNION {{[keyId |-> k, jwt |-> t] : t \in TamperedOf(TokenOf(k, p))} :
                k \in 1..MaxKeys, p \in Payloads}
  \cup {[keyId |-> 1, jwt |-> t] : t \in Malformed}

(* ------------------------------- actions ------------------------------- *)

NoOutcome == Outcome(<<>>, "none", "", FALSE, <<>>)

\* no call is in progress
Idle == [op |-> "none", input |-> <<>>, env |-> <<>>, pre |-> Absent, out |-> NoOutcome]

Init ==
  /\ slot = Absent
  /\ keyCounter = 0
  /\ last = Idle

\* one handler call, made when the host is idle: the slot it leaves, and the
\* record of the call
Call(op, input, env, r) ==
  /\ last = Idle
  /\ slot' = r.slot
  /\ last' = [op |-> op, input |-> input, env |-> env, pre |-> slot, out |-> r.out]

\* the provider hands out keyCounter + 1 next, and fails once MaxKeys are out
ProviderEnvs ==
  {[providerOk |-> ok, freshId |-> keyCounter + 1] :
     ok \in IF keyCounter < MaxKeys THEN BOOLEAN ELSE {FALSE}}

\* a key identifier was used iff the Wallet call inserted a record
Counted(r) == keyCounter' = IF r.out.ret = "ok" THEN keyCounter + 1 ELSE keyCounter

GenerateKeyCall(algorithms) ==
  \E algorithm \in algorithms, env \in ProviderEnvs :
    LET input == [description |-> "signing key", algorithm |-> algorithm]
        r == generateKey(slot, input, env)
    IN  Call("generateKey", input, env, r) /\ Counted(r)

RemoveKeyCall ==
  \E keyId \in KeyIdInputs :
    LET input == [keyId |-> keyId]
    IN  Call("removeKey", input, <<>>, removeKey(slot, input)) /\ UNCHANGED keyCounter

ImportKeyCall ==
  \E key \in KeyInputs, env \in ProviderEnvs :
    LET input == [description |-> "imported key", key |-> key]
        r == importKey(slot, input, env)
    IN  Call("importKey", input, env, r) /\ Counted(r)

ListKeysCall ==
  \E user \in {""} \cup UserIdInputs :
    LET input == [user |-> user]
    IN  Call("listKeys", input, <<>>, listKeys(slot, input)) /\ UNCHANGED keyCounter

AddUserCall ==
  \E userId \in UserIdInputs, role \in RoleInputs :
    LET input == [userId |-> userId, role |-> role]
    IN  Call("addUser", input, <<>>, addUser(slot, input)) /\ UNCHANGED keyCounter

RemoveUserCall ==
  \E userId \in UserIdInputs :
    LET input == [userId |-> userId]
    IN  Call("removeUser", input, <<>>, removeUser(slot, input)) /\ UNCHANGED keyCounter

CreateWalletCall(names) ==
  \E name \in names :
    LET input == [name |-> name]
    IN  Call("createWallet", input, <<>>, createWallet(slot, input)) /\ UNCHANGED keyCounter

GenerateJWTCall(payloads) ==
  \E keyId \in KeyIdInputs, payload \in payloads, ok \in BOOLEAN :
    LET input == [keyId |-> keyId, payload |-> payload]
        env == [providerOk |-> ok]
    IN  Call("generateJWT", input, env, generateJWT(slot, input, env)) /\ UNCHANGED keyCounter

CheckJWTCall(inputs) ==
  \E input \in inputs :
    Call("checkJWT", input, <<>>, checkJWT(slot, input)) /\ UNCHANGED keyCounter

\* the handler has returned to the host, which may dispatch the next call
Return ==
  /\ last # Idle
  /\ last' = Idle
  /\ UNCHANGED <<slot, keyCounter>>

\* the wallet lifecycle: every handler, few tokens
Next ==
  \/ GenerateKeyCall(AlgorithmInputs)
  \/ RemoveKeyCall
  \/ ImportKeyCall
  \/ ListKeysCall
  \/ AddUserCall
  \/ RemoveUserCall
  \/ CreateWalletCall(Names)
  \/ GenerateJWTCall({<<"h">>})
  \/ CheckJWTCall(FewCheckInputs)
  \/ Return

Spec == Init /\ [][Next]_vars

\* the token protocol: one wallet, its keys, every payload and token
NextToken ==
  \/ CreateWalletCall({"acme"})
  \/ GenerateKeyCall({"ECDSA", "RSA-PSS", "AES-GCM"})
  \/ GenerateJWTCall(Payloads)
  \/ CheckJWTCall(ManyCheckInputs)
  \/ Return

SpecToken == Init /\ [][NextToken]_vars
(* ------------------------------- claims -------------------------------- *)

Saved(out) == \E i \in DOMAIN out.calls : out.calls[i] = "Wallet.save"

Reverted(out) == out.revert # ""

\* the operations that need a wallet
WalletOps == {"generateKey", "removeKey", "importKey", "listKeys", "addUser", "removeUser",
              "generateJWT", "checkJWT"}

\* the import of this input is one the Wallet rejects: unknown format, key data
\* that is not base64, or the provider refusing the key
ImportFails(input, env) ==
  \/ input.key.format \notin KeyFormats
  \/ ~Decodable(input.key.keyData)
  \/ input.key.algorithm \notin Algorithms
  \/ ~env.providerOk

\* C1: a call invokes save only after its Wallet mutation reported success; a
\* call whose Wallet mutation failed never invokes save.
C1_SaveOnlyAfterSuccess == Saved(last.out) => last.out.ret = "ok"

\* C2: createWallet on a persisted wallet reverts and leaves name, keys and users
\* as they were; on an absent slot it saves a wallet with the given name, no keys
\* and no users.
C2_CreateWalletExactlyOnce ==
  last.op = "createWallet" =>
    IF last.pre.present
    THEN Reverted(last.out) /\ ~Saved(last.out) /\ slot = last.pre
    ELSE /\ ~Reverted(last.out) /\ Saved(last.out)
         /\ slot.present /\ slot.name = last.input.name
         /\ slot.keys = {} /\ slot.users = {}

\* a second createWallet, under another name, on a wallet that holds a key and a user
C2_Witness ==
  /\ last.op = "createWallet" /\ last.pre.present
  /\ last.pre.name # last.input.name
  /\ last.pre.keys # {} /\ last.pre.users # {}

\* C3: an importKey on an existing wallet whose import fails reports the
\* failure to its caller, which for a handler that returns nothing is a revert
\* with a message, and leaves the persisted wallet exactly as it was.
C3_FailedImportReported ==
  (last.op = "importKey" /\ last.pre.present /\ ImportFails(last.input, last.env))
    => Reverted(last.out) /\ slot = last.pre

\* C9: removeKey of a keyId the wallet does not hold reports failure without
\* reverting, does not save, and leaves the persisted state as it was.
C9_RemoveAbsentKey ==
  (last.op = "removeKey" /\ last.pre.present /\ last.input.keyId \notin KeyIdsOf(last.pre))
    => /\ last.out.ret = "fail"
       /\ ~Reverted(last.out) /\ ~last.out.trap
       /\ ~Saved(last.out)
       /\ slot = last.pre

\* removeKey of an unknown keyId on a wallet that holds another key
C9_Witness ==
  /\ last.op = "removeKey" /\ last.pre.present /\ last.pre.keys # {}
  /\ last.input.keyId \notin KeyIdsOf(last.pre)

\* C10: an operation that needs a wallet, called while none is persisted, aborts
\* at once with a message and changes nothing persisted.
C10_NoWalletAborts ==
  (last.op \in WalletOps /\ ~last.pre.present)
    => /\ Reverted(last.out)
       /\ last.out.revert # "Invalid JWT format"
       /\ slot = last.pre

(* --------------------------- claims: tokens ---------------------------- *)

\* the token a generateJWT call emitted, <<>> when it emitted none
TokenEmitted(out) ==
  IF out.events # <<>> /\ out.events[Len(out.events)][1] = "JWT generated: "
  THEN out.events[Len(out.events)][2]
  ELSE <<>>

Success(out) == \E i \in DOMAIN out.events : out.events[i][1] = "Verification Successful"

Dots(t) == Cardinality({i \in 1..Len(t) : t[i] = "."})

\* the tokens generateJWT emits on wallet w for keyId, over every payload
TokensOn(w, keyId) ==
  {TokenEmitted(generateJWT(w, [keyId |-> keyId, payload |-> p], [providerOk |-> TRUE]).out) :
     p \in Payloads} \ {<<>>}

\* the last call was checkJWT(k, t') on a wallet for which generateJWT(k, p)
\* emits t, and t' is t with one character of a segment changed
TamperedCheck ==
  /\ last.op = "checkJWT"
  /\ \E t \in TokensOn(last.pre, last.input.keyId) :
       /\ Len(t) = Len(last.input.jwt)
       /\ \E i \in 1..Len(t) :
            /\ t[i] # "." /\ t[i] # last.input.jwt[i]
            /\ \A j \in 1..Len(t) : j # i => t[j] = last.input.jwt[j]

\* C4: on one wallet state, the token generateJWT(k, p) emits makes
\* checkJWT(k, t) emit the success event and not revert.
C4_TokenRoundTrip ==
  (last.op = "checkJWT" /\ last.input.jwt \in TokensOn(last.pre, last.input.keyId))
    => Success(last.out) /\ ~Reverted(last.out) /\ ~last.out.trap

\* checkJWT of a token of the second key, with a payload, has succeeded
C4_Witness ==
  /\ last.op = "checkJWT" /\ last.input.keyId = MaxKeys
  /\ last.input.jwt = TokenOf(MaxKeys, <<"h">>)
  /\ last.input.jwt \in TokensOn(last.pre, last.input.keyId)
  /\ Success(last.out)

\* C5: checkJWT of a token of generateJWT with one character of a segment
\* changed fails with the invalid-signature error, or with the format error
\* when the number of segments changed, and never emits the success event.
C5_TamperRejected ==
  TamperedCheck =>
    /\ ~Success(last.out)
    /\ last.out.revert = IF Len(split(last.input.jwt, ".")) # 3
                          THEN "Invalid JWT format" ELSE "Invalid JWT signature"

\* a token whose signature segment had one character changed was rejected
C5_Witness ==
  /\ TamperedCheck
  /\ Len(split(last.input.jwt, ".")) = 3
  /\ split(last.input.jwt, ".")[3] # split(TokenOf(last.input.keyId, <<"h">>), ".")[3]
  /\ split(last.input.jwt, ".")[2] = split(TokenOf(last.input.keyId, <<"h">>), ".")[2]
  /\ last.out.revert = "Invalid JWT signature"

\* C6: checkJWT of a token that does not split into exactly 3 segments reverts
\* with the format error before the wallet is loaded, a key looked up or a
\* segment decoded, whether or not a wallet is persisted.
C6_FormatCheckedFirst ==
  (last.op = "checkJWT" /\ Len(split(last.input.jwt, ".")) # 3)
    => /\ last.out.revert = "Invalid JWT format"
       /\ last.out.calls = <<>>
       /\ last.out.events = <<>>
       /\ slot = last.pre

\* a 4-segment token was checked while no wallet was persisted
C6_Witness ==
  /\ last.op = "checkJWT" /\ ~last.pre.present
  /\ Len(split(last.input.jwt, ".")) = 4
  /\ last.out.revert = "Invalid JWT format"

\* C7: the second segment of an emitted token decodes to exactly the UTF-8
\* bytes of the payload, none added and none removed.
C7_PayloadSegmentExact ==
  (last.op = "generateJWT" /\ TokenEmitted(last.out) # <<>>)
    => decode(split(TokenEmitted(last.out), ".")[2]) = UTF8Encode(last.input.payload, FALSE)

\* C8: an emitted token has exactly two separators and is the header segment,
\* the payload segment and the signature Wallet.sign returns for the first two
\* joined by a separator.
C8_TokenLayout ==
  (last.op = "generateJWT" /\ TokenEmitted(last.out) # <<>>)
    => LET t == TokenEmitted(last.out)
           items == split(t, ".")
       IN  /\ Dots(t) = 2 /\ Len(items) = 3
           /\ items[1] = encode(UTF8Encode(JSONStringify([alg |-> <<"E", "C", "D", "S", "A">>]), TRUE))
           /\ items[2] = encode(UTF8Encode(last.input.payload, TRUE))
           /\ items[3] = Wallet_sign(last.pre, last.input.keyId,
                                     items[1] \o <<".">> \o items[2], last.env).sig
           /\ ~Wallet_sign(last.pre, last.input.keyId,
                           items[1] \o <<".">> \o items[2], last.env).null

\* a token was emitted for the longest payload
C8_Witness ==
  /\ last.op = "generateJWT" /\ TokenEmitted(last.out) # <<>>
  /\ Len(last.input.payload) = MaxPayloadLen

(* ----------------------- claims: failures and frame -------------------- *)

\* the call emitted a message that carries a three-segment string
EmitsThreeSegments(out) ==
  \E i \in DOMAIN out.events :
    Len(out.events[i]) >= 2 /\ out.events[i][1] # "keys" /\ Dots(out.events[i][2]) = 2

\* C11: when Wallet.sign fails in generateJWT (unknown keyId, an algorithm that
\* cannot sign, or a provider error) the call reverts with the failure message
\* and emits no three-segment token string.
C11_SignFailureNoToken ==
  (/\ last.op = "generateJWT" /\ last.pre.present
   /\ \/ last.input.keyId \notin KeyIdsOf(last.pre)
      \/ KeyOf(last.pre, last.input.keyId).algorithm \notin SigningAlgorithms
      \/ ~last.env.providerOk)
    => /\ last.out.revert = "Failed to generate JWT"
       /\ TokenEmitted(last.out) = <<>>
       /\ ~EmitsThreeSegments(last.out)

\* generateJWT with a key that cannot sign, on a wallet that also holds a signing key
C11_Witness ==
  /\ last.op = "generateJWT" /\ last.pre.present
  /\ last.input.keyId \in KeyIdsOf(last.pre)
  /\ KeyOf(last.pre, last.input.keyId).algorithm = "AES-GCM"
  /\ \E k \in last.pre.keys : k.algorithm \in SigningAlgorithms
  /\ last.env.providerOk
  /\ Reverted(last.out)

QueryOps == {"listKeys", "generateJWT", "checkJWT"}

\* C12: listKeys, generateJWT and checkJWT never invoke save and leave the
\* persisted wallet as it was, whether they succeed, revert or return early.
C12_QueriesDoNotPersist ==
  last.op \in QueryOps => ~Saved(last.out) /\ slot = last.pre

\* a checkJWT that succeeded on a wallet holding keys and users
C12_Witness ==
  /\ last.op = "checkJWT" /\ Success(last.out)
  /\ last.pre.keys # {} /\ last.pre.users # {}

\* the one admin of w is userId
SoleAdmin(w, userId) == Admins(w) = {[userId |-> userId, role |-> "admin"]}

\* C13: once the persisted user set holds an admin, every later persisted state
\* holds one; removeUser of the sole remaining admin fails, does not save and
\* leaves the user set as it was.
C13_AdminInvariant ==
  [][ /\ Admins(slot) # {} => Admins(slot') # {}
      /\ (last'.op = "removeUser" /\ SoleAdmin(slot, last'.input.userId))
           => /\ last'.out.ret = "fail"
              /\ ~Saved(last'.out)
              /\ slot' = slot ]_vars

\* removeUser of the sole admin, refused, on a wallet that holds another user
C13_Witness ==
  /\ last.op = "removeUser" /\ SoleAdmin(last.pre, last.input.userId)
  /\ Cardinality(last.pre.users) = 2
  /\ last.out.ret = "fail" /\ slot.users = last.pre.users

(* ----------------------- claims: verification -------------------------- *)

Called(out, call) == \E i \in DOMAIN out.calls : out.calls[i] = call

\* the last call was checkJWT of a three-segment token on a persisted wallet
ThreeSegmentCheck ==
  last.op = "checkJWT" /\ last.pre.present /\ Len(split(last.input.jwt, ".")) = 3

\* what Wallet.verify returns for (keyId, segment0 + "." + segment1, segment2)
VerifyOfLast ==
  LET items == split(last.input.jwt, ".")
  IN  Wallet_verify(last.pre, last.input.keyId, items[1] \o <<".">> \o items[2], items[3])

\* C14: for every three-segment token on a persisted wallet checkJWT calls
\* Wallet.verify(keyId, segment0 + "." + segment1, segment2), emits the
\* success event iff it returns true and reverts with the invalid-signature
\* error if it returns false, never both.
C14_VerifyDecides ==
  ThreeSegmentCheck =>
    /\ Called(last.out, "Wallet.verify")
    /\ Success(last.out) <=> VerifyOfLast
    /\ ~VerifyOfLast => last.out.revert = "Invalid JWT signature"
    /\ ~(Success(last.out) /\ Reverted(last.out))

\* a token of key 1 checked under another signing key of the wallet was rejected
C14_Witness ==
  /\ ThreeSegmentCheck
  /\ last.input.jwt = TokenOf(1, <<"h">>) /\ last.input.keyId # 1
  /\ last.input.keyId \in KeyIdsOf(last.pre)
  /\ KeyOf(last.pre, last.input.keyId).algorithm \in SigningAlgorithms
  /\ last.out.revert = "Invalid JWT signature"

\* C15: when the header or payload segment of a three-segment token cannot be
\* decoded, checkJWT fails with the format error, never with the
\* invalid-signature error, and Wallet.verify is not reached.
C15_DecodeFailureIsFormatError ==
  (ThreeSegmentCheck /\ \E i \in 1..2 : ~Decodable(split(last.input.jwt, ".")[i]))
    => /\ last.out.revert = "Invalid JWT format"
       /\ ~Called(last.out, "Wallet.verify")

(* --------------------------- claims: lifecycle ------------------------- *)

\* C16: once a wallet is persisted, it is persisted in every later state, and
\* every later createWallet reverts without saving.
C16_WalletStaysPersisted ==
  [][ slot.present =>
        /\ slot'.present
        /\ last'.op = "createWallet" => Reverted(last'.out) /\ ~Saved(last'.out) ]_vars

\* createWallet reverted on a wallet whose every key had been removed
C16_Witness ==
  /\ last.op = "createWallet" /\ last.pre.present
  /\ keyCounter > 0 /\ last.pre.keys = {}
  /\ Reverted(last.out) /\ slot.present

(* ------------------------ claims: header algorithm --------------------- *)

\* the header text every token carries
EcdsaHeader == <<"{", "\"", "a", "l", "g", "\"", ":", "\"", "E", "C", "D", "S", "A", "\"", "}">>

\* C17: the header segment generateJWT builds reads {"alg":"ECDSA"} for every
\* keyId, key algorithm and payload, and checkJWT accepts a token of a key whose
\* algorithm is not the one the header names.
C17_HeaderFixedAndUnchecked ==
  /\ (last.op = "generateJWT" /\ last.pre.present)
       => UTF8Decode(decode(split(last.out.events[1][2], ".")[1]), TRUE) = EcdsaHeader
  /\ (/\ last.op = "checkJWT"
      /\ last.input.jwt \in TokensOn(last.pre, last.input.keyId)
      /\ KeyOf(last.pre, last.input.keyId).algorithm # "ECDSA")
       => /\ Success(last.out)
          /\ UTF8Decode(decode(split(last.input.jwt, ".")[1]), TRUE) = EcdsaHeader

\* a token signed by an RSA-PSS key, its header naming ECDSA, was accepted
C17_Witness ==
  /\ last.op = "checkJWT" /\ last.pre.present
  /\ last.input.keyId \in KeyIdsOf(last.pre)
  /\ KeyOf(last.pre, last.input.keyId).algorithm = "RSA-PSS"
  /\ last.input.jwt \in TokensOn(last.pre, last.input.keyId)
  /\ Success(last.out)

(* ------------------------ claims: before createWallet ------------------ *)

\* C18: called while no wallet is persisted, generateKey, removeKey, importKey,
\* listKeys, addUser, removeUser, generateJWT and checkJWT do not call save and
\* leave the slot absent, and emit neither a token nor the success event.
C18_NothingBeforeCreate ==
  (last.op \in WalletOps /\ ~last.pre.present)
    => /\ \A i \in DOMAIN last.out.calls : last.out.calls[i] = "Wallet.load"
       /\ slot = Absent
       /\ \A i \in DOMAIN last.out.events :
            last.out.events[i][1] \notin {"JWT generated: ", "Verification Successful"}

\* generateKey with a valid algorithm and a working provider, and checkJWT of a
\* well-formed token, were called on the absent wallet
C18_Witness ==
  /\ ~last.pre.present /\ ~slot.present
  /\ \/ /\ last.op = "generateKey"
        /\ last.input.algorithm \in Algorithms
        /\ last.env.providerOk
     \/ /\ last.op = "checkJWT"
        /\ Dots(last.input.jwt) = 2
====
